---- MODULE Spec2Model ----
(***************************************************************************)
(* Token lifecycle of KrogerAPIService (src/service.py) as driven by the   *)
(* Flask routes (src/routes.py) of a threaded server (src/main.py).        *)
(*                                                                         *)
(* Time is the wall clock in seconds.  Every worker thread runs one call   *)
(* at a time; a call is cut into steps at its blocking HTTP requests and   *)
(* at its writes of shared state.  The upstream API is the environment:    *)
(* it answers every request with a status and, on 200, a token payload.    *)
(***************************************************************************)
EXTENDS Integers, Sequences, FiniteSets, TLC

\* ---------------------------------------------------------------- bounds
MaxClientTime == 1700
MaxUserTime == 300
MaxStoreTime == 100
MaxRaceTime == 200
TickStep == 100

\* ------------------------------------------------------ program constants
SkewSeconds == 300
DefaultExpiresIn == 1800
HttpOk == 200

\* ------------------------------------------------------- value universes
None == "None"
NoTime == -1
NetFail == 0

Workers == {"w1", "w2"}
Sessions == {"s1", "s2"}
AccessTokens == {"A1", "A2"}
RefreshTokens == {"R1", "R2"}
ClientExpiresIn == {300, 500, 1800}
UserExpiresIn == {NoTime, 300, 500}
ErrorStatuses == {401, 500}
ArgValues == {None, "x"}
ItemLists == {None, "empty", "items"}

TokenUrl == "/v1/connect/oauth2/token"

\* ------------------------------------------------------- python helpers
\* Truth value of an optional string as Python's `if x:` sees it.
Truthy(x) == x /= None /\ x /= ""

IsTokenExpiredInverted(expires_at, t) ==
    IF expires_at = NoTime THEN TRUE ELSE t <= expires_at - SkewSeconds

IsTokenExpiredNoSkew(expires_at, t) ==
    IF expires_at = NoTime THEN TRUE ELSE t >= expires_at

\* _is_token_expired: no expiry recorded, or within 5 minutes of it.
IsTokenExpired(expires_at, t) ==
    IF expires_at = NoTime THEN TRUE ELSE t >= expires_at - SkewSeconds

RaisesForStatusOnlyServerErrors(status) == status >= 500 /\ status < 600

\* response.raise_for_status(): raises for 4xx and 5xx answers.
RaisesForStatus(status) == status >= 400 /\ status < 600

\* ------------------------------------------------------------- requests
Req(method, path, grant, bearer, param) ==
    [method |-> method, path |-> path, grant |-> grant,
     bearer |-> bearer, param |-> param]

ClientGrantReq == Req("POST", TokenUrl, "client_credentials", None, None)
RefreshGrantReq(refresh_token) ==
    Req("POST", TokenUrl, "refresh_token", None, refresh_token)
CodeGrantReq == Req("POST", TokenUrl, "authorization_code", None, "code")

IsGrant(r, grant) == r.path = TokenUrl /\ r.grant = grant
CountReqs(reqs, grant) ==
    Cardinality({i \in 1..Len(reqs) : IsGrant(reqs[i], grant)})

\* -------------------------------------------------------------- results
NoResult == [kind |-> "none", err |-> None, status |-> NetFail, value |-> None]
Ok(value) == [kind |-> "ok", err |-> None, status |-> HttpOk, value |-> value]
Err(msg, status) == [kind |-> "error", err |-> msg, status |-> status, value |-> None]
\* A route answering 400 by itself, before any service call.
Reject(msg) == [kind |-> "rejected", err |-> msg, status |-> NetFail, value |-> None]

\* ---------------------------------------------------------------- state
VARIABLES now, client_token, client_token_expires_at, user_tokens, calls

vars == <<now, client_token, client_token_expires_at, user_tokens, calls>>

NoRecord == [access_token |-> None, refresh_token |-> None,
             expires_at |-> NoTime, token_type |-> None]

NoArgs == [term |-> None, brand |-> None, product_id |-> None, items |-> None,
           code |-> None, state |-> <<>>, error |-> None]

IdleCall == [op |-> None, pc |-> "idle", sid |-> None, args |-> NoArgs,
             reqs |-> <<>>, utd |-> NoRecord, result |-> NoResult,
             judged |-> None, answers |-> <<>>, value_seen |-> None,
             rtoken_seen |-> None, payload_exp |-> NoTime, stored_at |-> NoTime,
             pre_expires_at |-> NoTime, wrote |-> {}, ttype_seen |-> None]

Init ==
    /\ now = 0
    /\ client_token = None
    /\ client_token_expires_at = NoTime
    /\ user_tokens = [s \in Sessions |-> NoRecord]
    /\ calls = [w \in Workers |-> IdleCall]

Free(w) == calls[w].pc \in {"idle", "done"}

\* A call entered: its arguments, and the shared state it found.
NewCall(op, sid, args) ==
    [IdleCall EXCEPT !.op = op, !.sid = sid, !.args = args,
                     !.pre_expires_at = client_token_expires_at]

\* The sessions whose record differs between two values of the store.
Changed(old, new) == {s \in Sessions : old[s] /= new[s]}

Send(c, r) == [c EXCEPT !.reqs = Append(@, r)]
Answered(c, status) == [c EXCEPT !.answers = Append(@, status)]
Finish(c, res) == [c EXCEPT !.pc = "done", !.result = res]

\* --------------------------------------------------------- wall clock
AdvanceClock(limit) ==
    /\ now + TickStep <= limit
    /\ now' = now + TickStep
    /\ UNCHANGED <<client_token, client_token_expires_at, user_tokens, calls>>

ClientTick == AdvanceClock(MaxClientTime)
UserTick == AdvanceClock(MaxUserTime)

\* ------------------------------------------- client-credentials token
\* get_client_token, line 50: a token is stored and not near expiry.
ClientTokenUsable(token, expires_at, t) ==
    Truthy(token) /\ ~IsTokenExpired(expires_at, t)

GrantFailedOnlyServerErrors(status) == status >= 500

\* get_client_token, line 71: any answer but 200 is a failure.
GrantFailed(status) == status /= HttpOk

ClientExpiryNoClock(t, expires_in) == expires_in

\* get_client_token, line 91.
ClientExpiry(t, expires_in) == t + expires_in

ClientOps == {"get_client_token", "search_locations", "get_location_details",
              "search_products", "get_product_details"}
WrapperOps == ClientOps \ {"get_client_token"}

ResourcePath(op) ==
    CASE op = "search_locations" -> "/v1/locations"
      [] op = "get_location_details" -> "/v1/locations/{id}"
      [] op = "search_products" -> "/v1/products"
      [] op = "get_product_details" -> "/v1/products/{id}"
      [] op = "get_user_profile" -> "/v1/identity/profile"
      [] op = "add_to_cart" -> "/v1/cart/add"

ResourceMethod(op) == IF op = "add_to_cart" THEN "PUT" ELSE "GET"

FailureMessage(op) ==
    CASE op = "search_locations" -> "Location search failed"
      [] op = "get_location_details" -> "Location details failed"
      [] op = "search_products" -> "Product search failed"
      [] op = "get_product_details" -> "Product details failed"
      [] op = "get_user_profile" -> "Profile retrieval failed"
      [] op = "add_to_cart" -> "Add to cart failed"

SearchParamsAllSupplied(args) ==
    (IF Truthy(args.term) THEN {"filter.term"} ELSE {})
       \cup (IF Truthy(args.brand) THEN {"filter.brand"} ELSE {})
       \cup (IF Truthy(args.product_id) THEN {"filter.productId"} ELSE {})

\* search_products, lines 174-179: the search filters put into params.
SearchParams(args) ==
    IF Truthy(args.term) THEN {"filter.term"}
    ELSE IF Truthy(args.brand) THEN {"filter.brand"}
    ELSE IF Truthy(args.product_id) THEN {"filter.productId"}
    ELSE {}

\* search_products, lines 174-181: the search filters of the request as
\* one value: None when the call raises ValueError, the filter when there
\* is one, "multiple" when params holds several.
SearchFilter(args) ==
    LET params == SearchParams(args)
    IN IF params = {} THEN None
       ELSE IF Cardinality(params) = 1 THEN CHOOSE f \in params : TRUE
       ELSE "multiple"

IsResource(r) == r.path /= TokenUrl
ResourceReqs(reqs) == {i \in 1..Len(reqs) : IsResource(reqs[i])}

\* get_client_token entered by call c (lines 50-68): answer from memory,
\* or post the client-credentials grant.
EnterGetClientToken(c) ==
    IF ClientTokenUsable(client_token, client_token_expires_at, now)
    THEN IF c.op = "get_client_token"
         THEN [Finish(c, Ok(client_token)) EXCEPT !.judged = "fresh"]
         ELSE [c EXCEPT !.pc = "token_ready", !.judged = "fresh"]
    ELSE [Send(c, ClientGrantReq) EXCEPT !.pc = "grant_wait", !.judged = "stale"]

CallGetClientToken(w) ==
    /\ Free(w)
    /\ calls' = [calls EXCEPT ![w] =
                    EnterGetClientToken(NewCall("get_client_token", None, NoArgs))]
    /\ UNCHANGED <<now, client_token, client_token_expires_at, user_tokens>>

CallWrapper(w) ==
    /\ Free(w)
    /\ \E op \in WrapperOps :
         \E term \in ArgValues, brand \in ArgValues, product_id \in ArgValues :
            /\ op /= "search_products" =>
                  term = None /\ brand = None /\ product_id = None
            /\ calls' = [calls EXCEPT ![w] =
                  EnterGetClientToken(NewCall(op, None,
                     [NoArgs EXCEPT !.term = term, !.brand = brand,
                                    !.product_id = product_id]))]
    /\ UNCHANGED <<now, client_token, client_token_expires_at, user_tokens>>

\* The token endpoint answered the client-credentials grant (lines 68-89).
GrantAnswer(w) ==
    /\ calls[w].pc = "grant_wait"
    /\ \E status \in {HttpOk, NetFail} \cup ErrorStatuses :
         IF status = NetFail \/ GrantFailed(status)
         THEN /\ calls' = [calls EXCEPT ![w] =
                   Finish(Answered(@, status), Err("Authentication failed", status))]
              /\ UNCHANGED client_token
         ELSE \E token \in AccessTokens, expires_in \in ClientExpiresIn :
                /\ client_token' = token
                /\ calls' = [calls EXCEPT ![w] =
                      [Answered(@, status) EXCEPT !.pc = "grant_store",
                                                  !.payload_exp = expires_in,
                                                  !.value_seen = token]]
    /\ UNCHANGED <<now, client_token_expires_at, user_tokens>>

\* Lines 90-98: the expiry is written and the call returns.
GrantStore(w) ==
    /\ calls[w].pc = "grant_store"
    /\ client_token_expires_at' = ClientExpiry(now, calls[w].payload_exp)
    /\ calls' = [calls EXCEPT ![w] =
          IF @.op = "get_client_token"
          THEN [Finish(@, Ok(client_token)) EXCEPT !.stored_at = now]
          ELSE [@ EXCEPT !.pc = "token_ready", !.stored_at = now]]
    /\ UNCHANGED <<now, client_token, user_tokens>>

\* A wrapper after get_client_token returned: headers, parameters, GET.
WrapperRequest(w) ==
    /\ calls[w].pc = "token_ready"
    /\ LET c == calls[w]
           filter == IF c.op = "search_products" THEN SearchFilter(c.args)
                     ELSE "filter"
       IN calls' = [calls EXCEPT ![w] =
             IF filter = None
             THEN Finish(c, Err("ValueError", NetFail))
             ELSE [Send(c, Req("GET", ResourcePath(c.op), None, client_token,
                               filter)) EXCEPT !.pc = "resource_wait"]]
    /\ UNCHANGED <<now, client_token, client_token_expires_at, user_tokens>>

\* The resource endpoint answered (raise_for_status, then the return).
ResourceAnswer(w) ==
    /\ calls[w].pc = "resource_wait"
    /\ \E status \in {HttpOk, NetFail} \cup ErrorStatuses :
         calls' = [calls EXCEPT ![w] =
            IF status = NetFail \/ RaisesForStatus(status)
            THEN Finish(Answered(@, status), Err(FailureMessage(@.op), status))
            ELSE Finish(Answered(@, status),
                        Ok(IF @.op = "add_to_cart" THEN "True" ELSE "json"))]
    /\ UNCHANGED <<now, client_token, client_token_expires_at, user_tokens>>

\* The client token left by a grant that was answered before time 0.
PriorToken == "A0"
PriorExpiresIn == 300

\* The service when two request threads start: no client token yet, or one
\* stored at time 0 that is already within the skew of its expiry.
InitRace ==
    /\ now = 0
    /\ \/ client_token = None /\ client_token_expires_at = NoTime
       \/ /\ client_token = PriorToken
          /\ client_token_expires_at = ClientExpiry(0, PriorExpiresIn)
    /\ user_tokens = [s \in Sessions |-> NoRecord]
    /\ calls = [w \in Workers |-> IdleCall]

RaceTick == AdvanceClock(MaxRaceTime)

\* ------------------------------------------------- per-session tokens
UserPayloads ==
    [access_token : AccessTokens, refresh_token : RefreshTokens \cup {None},
     expires_in : UserExpiresIn, token_type : {None, "bearer"}]

StoreUserTokenFixedExpiry(tokens, sid, payload, t) ==
    [tokens EXCEPT ![sid] =
        [access_token |-> payload.access_token,
         refresh_token |-> payload.refresh_token,
         expires_at |-> t + DefaultExpiresIn,
         token_type |-> IF payload.token_type = None THEN "bearer"
                        ELSE payload.token_type]]

StoreUserTokenKeepsRefresh(tokens, sid, payload, t) ==
    [tokens EXCEPT ![sid] =
        [access_token |-> payload.access_token,
         refresh_token |-> IF payload.refresh_token = None
                           THEN tokens[sid].refresh_token
                           ELSE payload.refresh_token,
         expires_at |-> t + (IF payload.expires_in = NoTime
                             THEN DefaultExpiresIn ELSE payload.expires_in),
         token_type |-> IF payload.token_type = None THEN "bearer"
                        ELSE payload.token_type]]

\* store_user_token, lines 285-293 (an absent expires_in is NoTime).
StoreUserToken(tokens, sid, payload, t) ==
    [tokens EXCEPT ![sid] =
        [access_token |-> payload.access_token,
         refresh_token |-> payload.refresh_token,
         expires_at |-> t + (IF payload.expires_in = NoTime
                             THEN DefaultExpiresIn ELSE payload.expires_in),
         token_type |-> IF payload.token_type = None THEN "bearer"
                        ELSE payload.token_type]]

GetUserTokenHidesExpired(tokens, sid) ==
    IF tokens[sid].expires_at <= SkewSeconds THEN NoRecord ELSE tokens[sid]

\* get_user_token, lines 295-297: NoRecord is the None of dict.get.
GetUserToken(tokens, sid) == tokens[sid]

ClearUserSessionAll(tokens, sid) == [s \in Sessions |-> NoRecord]

\* clear_user_session, lines 373-376.
ClearUserSession(tokens, sid) ==
    IF tokens[sid] /= NoRecord THEN [tokens EXCEPT ![sid] = NoRecord] ELSE tokens

UserOps == {"get_user_profile", "add_to_cart"}

UserRequest(c, record) ==
    Req(ResourceMethod(c.op), ResourcePath(c.op), None, record.access_token,
        IF c.op = "add_to_cart" THEN c.args.items ELSE None)

NeedsRefreshNever(record, t) == FALSE

\* Lines 309 and 345: the record is treated as expired.
NeedsRefresh(record, t) == IsTokenExpired(record.expires_at, t)

CanRefreshAlways(record) == TRUE

\* Lines 310 and 346: the record holds a refresh token.
CanRefresh(record) == Truthy(record.refresh_token)

RefreshTokenSentAccess(record) == record.access_token

\* Lines 312 and 348: the refresh token handed to refresh_user_token.
RefreshTokenSent(record) == record.refresh_token

HasRecordAlways(record) == TRUE

\* Lines 305 and 341: get_user_token found a record.
HasRecord(record) == record /= NoRecord

\* get_user_profile / add_to_cart entered (lines 304-318, 340-354), up to
\* the first blocking request.
EnterUserOp(c) ==
    LET record == GetUserToken(user_tokens, c.sid)
        d == [c EXCEPT !.utd = record]
    IN IF ~HasRecord(record)
       THEN Finish(d, Err("No user token found for session", NetFail))
       ELSE IF NeedsRefresh(record, now)
       THEN IF CanRefresh(record)
            THEN [Send(d, RefreshGrantReq(RefreshTokenSent(record)))
                    EXCEPT !.pc = "refresh_wait", !.judged = "expired"]
            ELSE [Finish(d, Err("Token expired and no refresh token available",
                                NetFail)) EXCEPT !.judged = "expired"]
       ELSE [Send(d, UserRequest(d, record))
               EXCEPT !.pc = "resource_wait", !.judged = "fresh"]

CallUserOp(w) ==
    /\ Free(w)
    /\ \E op \in UserOps, sid \in Sessions, items \in ItemLists :
         /\ op = "get_user_profile" => items = None
         /\ calls' = [calls EXCEPT ![w] =
               EnterUserOp(NewCall(op, sid, [NoArgs EXCEPT !.items = items]))]
    /\ UNCHANGED <<now, client_token, client_token_expires_at, user_tokens>>

\* The token endpoint answered the refresh grant (lines 277-283, then
\* 313 or 316 in the caller).
RefreshAnswer(w) ==
    /\ calls[w].pc = "refresh_wait"
    /\ \E status \in {HttpOk, NetFail} \cup ErrorStatuses :
         IF status = NetFail \/ RaisesForStatus(status)
         THEN /\ calls' = [calls EXCEPT ![w] =
                   Finish(Answered(@, status), Err("Token refresh failed", NetFail))]
              /\ UNCHANGED user_tokens
         ELSE \E payload \in UserPayloads :
                /\ user_tokens' =
                      StoreUserToken(user_tokens, calls[w].sid, payload, now)
                /\ calls' = [calls EXCEPT ![w] =
                      [Answered(@, status) EXCEPT
                          !.pc = "refresh_reread",
                          !.wrote = @ \cup Changed(user_tokens, user_tokens'),
                          !.value_seen = payload.access_token,
                          !.rtoken_seen = payload.refresh_token,
                          !.payload_exp = payload.expires_in,
                          !.stored_at = now]]
    /\ UNCHANGED <<now, client_token, client_token_expires_at>>

RefreshRereadChecksExpiry(w) ==
    /\ calls[w].pc = "refresh_reread"
    /\ calls' = [calls EXCEPT ![w] = EnterUserOp(@)]
    /\ UNCHANGED <<now, client_token, client_token_expires_at, user_tokens>>

\* Lines 314 and 320-327: the record is read again and the resource
\* request leaves with its access token (subscripting None is a TypeError).
RefreshReread(w) ==
    /\ calls[w].pc = "refresh_reread"
    /\ LET c == calls[w]
           record == GetUserToken(user_tokens, c.sid)
           d == [c EXCEPT !.utd = record]
       IN calls' = [calls EXCEPT ![w] =
             IF ~HasRecord(record)
             THEN Finish(d, Err("TypeError", NetFail))
             ELSE [Send(d, UserRequest(d, record)) EXCEPT !.pc = "resource_wait"]]
    /\ UNCHANGED <<now, client_token, client_token_expires_at, user_tokens>>

\* A query-string value as its pieces: <<>> is a missing parameter, <<"">>
\* an empty one, <<"kroger_auth_", "s1">> the state login builds for s1.
StatePrefix == "kroger_auth_"
StateValues ==
    {<<>>, <<"">>, <<"bad">>} \cup {<<StatePrefix, s>> : s \in Sessions}
       \cup {<<"x", s>> : s \in Sessions}
CodeValues == {None, "code"}
ErrorValues == {None, "access_denied"}

StatePresent(state) == state /= <<>> /\ state /= <<"">>
EndsWith(state, suffix) == state /= <<>> /\ state[Len(state)] = suffix
StartsWith(state, prefix) == state /= <<>> /\ state[1] = prefix

StateAcceptedStrict(state, sid) == EndsWith(state, sid)

\* auth_callback, routes.py 807-812: the state ends with the session id,
\* or at least starts with the prefix login uses.
StateAccepted(state, sid) ==
    EndsWith(state, sid) \/ StartsWith(state, StatePrefix)

\* auth_callback, routes.py 791-812: the message of the 400 answer, None
\* when the callback goes on to the exchange.
CallbackRejection(code, state, error, sid) ==
    IF Truthy(error) THEN "Authorization failed"
    ELSE IF ~Truthy(code) THEN "No authorization code received"
    ELSE IF ~StatePresent(state) THEN "Invalid state parameter"
    ELSE IF ~StateAccepted(state, sid) THEN "Invalid state parameter format"
    ELSE None

\* auth_callback (routes.py 783-820) for the session of the caller: the
\* parameter checks, then the code is sent to the token endpoint.
AuthCallback(w, sid, code, state, error) ==
    /\ Free(w)
    /\ LET c == NewCall("auth_callback", sid,
                        [NoArgs EXCEPT !.code = code, !.state = state,
                                       !.error = error])
           msg == CallbackRejection(code, state, error, sid)
       IN calls' = [calls EXCEPT ![w] =
             IF msg /= None THEN Finish(c, Reject(msg))
             ELSE [Send(c, CodeGrantReq) EXCEPT !.pc = "exchange_wait"]]
    /\ UNCHANGED <<now, client_token, client_token_expires_at, user_tokens>>

\* The callback with any parameters the browser may bring.
CallAuthCallback(w) ==
    \E sid \in Sessions, code \in CodeValues, state \in StateValues,
       error \in ErrorValues : AuthCallback(w, sid, code, state, error)

\* The callback as the login redirect produces it (routes.py 775): the
\* code and the state built for the session.
CallAuthCallbackFromLogin(w) ==
    \E sid \in Sessions : AuthCallback(w, sid, "code", <<StatePrefix, sid>>, None)

\* exchange_code_for_token(code, redirect_uri) called on the service.
CallExchangeCode(w) ==
    /\ Free(w)
    /\ calls' = [calls EXCEPT ![w] =
          [Send(NewCall("exchange_code_for_token", None,
                        [NoArgs EXCEPT !.code = "code"]), CodeGrantReq)
             EXCEPT !.pc = "exchange_wait"]]
    /\ UNCHANGED <<now, client_token, client_token_expires_at, user_tokens>>

\* exchange_code_for_token answered (service.py 253-259): the payload is
\* returned, and auth_callback stores it (routes.py 824).
ExchangeAnswer(w) ==
    /\ calls[w].pc = "exchange_wait"
    /\ \E status \in {HttpOk, NetFail} \cup ErrorStatuses :
         IF status = NetFail \/ RaisesForStatus(status)
         THEN /\ calls' = [calls EXCEPT ![w] =
                   Finish(Answered(@, status), Err("Token exchange failed", status))]
              /\ UNCHANGED user_tokens
         ELSE \E payload \in UserPayloads :
                /\ user_tokens' =
                      IF calls[w].op = "auth_callback"
                      THEN StoreUserToken(user_tokens, calls[w].sid, payload, now)
                      ELSE user_tokens
                /\ calls' = [calls EXCEPT ![w] =
                      [Finish(Answered(@, status),
                              Ok(IF @.op = "auth_callback" THEN "redirect"
                                 ELSE "payload")) EXCEPT
                          !.wrote = @ \cup Changed(user_tokens, user_tokens'),
                          !.value_seen = payload.access_token,
                          !.rtoken_seen = payload.refresh_token,
                          !.payload_exp = payload.expires_in,
                          !.stored_at = IF calls[w].op = "auth_callback"
                                        THEN now ELSE NoTime]]
    /\ UNCHANGED <<now, client_token, client_token_expires_at>>

\* The status a route answers with once call c has ended: 400 where the
\* route itself refused the request, 500 from the `except Exception`
\* handler whatever the service raised, else the redirect of auth_callback
\* or the 200 of jsonify.
RouteStatus(c) ==
    IF c.result.kind = "rejected" THEN 400
    ELSE IF c.result.kind = "error" THEN 500
    ELSE IF c.op = "auth_callback" THEN 302
    ELSE HttpOk

\* logout (routes.py 880-888): clear_user_session of the session.
Logout(w) ==
    /\ Free(w)
    /\ \E sid \in Sessions :
         /\ user_tokens' = ClearUserSession(user_tokens, sid)
         /\ calls' = [calls EXCEPT ![w] =
               [Finish(NewCall("logout", sid, NoArgs), Ok("logged out"))
                  EXCEPT !.wrote = Changed(user_tokens, user_tokens')]]
    /\ UNCHANGED <<now, client_token, client_token_expires_at>>

\* The records an authorization-code exchange answered at time 0 has left.
PriorPayloads ==
    [access_token : {PriorToken}, refresh_token : {None, "R1"},
     expires_in : {NoTime, PriorExpiresIn}, token_type : {"bearer"}]

PriorRecords ==
    {StoreUserToken([s \in Sessions |-> NoRecord], "s1", p, 0)["s1"] :
        p \in PriorPayloads}

\* The service when two request threads start: every session logged out
\* or holding the record of an earlier exchange.
InitUserRace ==
    /\ now = 0
    /\ client_token = None
    /\ client_token_expires_at = NoTime
    /\ user_tokens \in [Sessions -> PriorRecords \cup {NoRecord}]
    /\ calls = [w \in Workers |-> IdleCall]

\* The service at the start of one invocation: client token missing, near
\* its expiry or usable, and every session logged out or holding a record.
InitOnce ==
    /\ now = 0
    /\ \/ client_token = None /\ client_token_expires_at = NoTime
       \/ /\ client_token = PriorToken
          /\ client_token_expires_at \in
                {ClientExpiry(0, PriorExpiresIn), ClientExpiry(0, DefaultExpiresIn)}
    /\ user_tokens \in [Sessions -> PriorRecords \cup {NoRecord}]
    /\ calls = [w \in Workers |-> IdleCall]

\* --------------------------------- the token store called directly
StoreExpiresIn == {NoTime, 100, 500}

StorePayloads ==
    [access_token : AccessTokens, refresh_token : RefreshTokens \cup {None},
     expires_in : StoreExpiresIn, token_type : {None, "Bearer"}]

\* store_user_token(session_id, token_data) called on the service.
StoreUserTokenCall(w) ==
    /\ Free(w)
    /\ \E sid \in Sessions, payload \in StorePayloads :
         /\ user_tokens' = StoreUserToken(user_tokens, sid, payload, now)
         /\ calls' = [calls EXCEPT ![w] =
               [Finish(NewCall("store_user_token", sid, NoArgs), Ok(None)) EXCEPT
                   !.wrote = Changed(user_tokens, user_tokens'),
                   !.value_seen = payload.access_token,
                   !.rtoken_seen = payload.refresh_token,
                   !.payload_exp = payload.expires_in,
                   !.ttype_seen = payload.token_type,
                   !.stored_at = now]]
    /\ UNCHANGED <<now, client_token, client_token_expires_at>>

\* get_user_token(session_id) called on the service; utd is what it returns.
GetUserTokenCall(w) ==
    /\ Free(w)
    /\ \E sid \in Sessions :
         calls' = [calls EXCEPT ![w] =
            [Finish(NewCall("get_user_token", sid, NoArgs), Ok("record")) EXCEPT
                !.utd = GetUserToken(user_tokens, sid)]]
    /\ UNCHANGED <<now, client_token, client_token_expires_at, user_tokens>>

\* clear_user_session(session_id) called on the service.
ClearUserSessionCall(w) ==
    /\ Free(w)
    /\ \E sid \in Sessions :
         /\ user_tokens' = ClearUserSession(user_tokens, sid)
         /\ calls' = [calls EXCEPT ![w] =
               [Finish(NewCall("clear_user_session", sid, NoArgs), Ok(None))
                  EXCEPT !.wrote = Changed(user_tokens, user_tokens')]]
    /\ UNCHANGED <<now, client_token, client_token_expires_at>>

StoreTick == AdvanceClock(MaxStoreTime)

\* ------------------------------------------------------ specifications
ClientStep(w) ==
    \/ CallGetClientToken(w)
    \/ CallWrapper(w)
    \/ GrantAnswer(w)
    \/ GrantStore(w)
    \/ WrapperRequest(w)
    \/ ResourceAnswer(w)

UserStep(w) ==
    \/ CallAuthCallbackFromLogin(w)
    \/ ExchangeAnswer(w)
    \/ Logout(w)
    \/ CallUserOp(w)
    \/ RefreshAnswer(w)
    \/ RefreshReread(w)
    \/ ResourceAnswer(w)

\* One request handled at a time, client-token side.
NextClient == ClientTick \/ ClientStep("w1")
SpecClient == Init /\ [][NextClient]_vars

\* One request handled at a time, session side.
NextUser == UserTick \/ UserStep("w1")
SpecUser == Init /\ [][NextUser]_vars

\* The token store driven directly, one call at a time.
\* Two request threads (main.py: threaded=True), one request each, every
\* step of one interleaved with every step of the other.  The wrappers
\* differ only in what they send after get_client_token returned, so the
\* location search stands for the four of them.
ClientRaceStep(w) ==
    \/ calls[w].pc = "idle" /\ CallGetClientToken(w)
    \/ calls[w].pc = "idle" /\ CallWrapper(w) /\ calls'[w].op = "search_locations"
    \/ GrantAnswer(w)
    \/ GrantStore(w)
    \/ WrapperRequest(w)
    \/ ResourceAnswer(w)

NextClientRace == RaceTick \/ \E w \in Workers : ClientRaceStep(w)
SpecClientRace == InitRace /\ [][NextClientRace]_vars

\* Two request threads, one request each: profile, cart or logout.  The
\* cart carries items, and a refresh answered with 200 carries a payload
\* without refresh token and without expires_in.
UserRaceStep(w) ==
    \/ /\ calls[w].pc = "idle"
       /\ CallUserOp(w)
       /\ calls'[w].op = "add_to_cart" => calls'[w].args.items = "items"
    \/ calls[w].pc = "idle" /\ Logout(w)
    \/ /\ RefreshAnswer(w)
       /\ calls'[w].rtoken_seen = None
       /\ calls'[w].payload_exp = NoTime
    \/ RefreshReread(w)
    \/ ResourceAnswer(w)

NextUserRace == RaceTick \/ \E w \in Workers : UserRaceStep(w)
SpecUserRace == InitUserRace /\ [][NextUserRace]_vars

\* One invocation of one wrapper, start to finish.
OnceStep(w) ==
    \/ calls[w].pc = "idle" /\ CallWrapper(w)
    \/ calls[w].pc = "idle" /\ CallUserOp(w)
    \/ GrantAnswer(w)
    \/ GrantStore(w)
    \/ WrapperRequest(w)
    \/ RefreshAnswer(w)
    \/ RefreshReread(w)
    \/ ResourceAnswer(w)

NextOnce == RaceTick \/ OnceStep("w1")
SpecOnce == InitOnce /\ [][NextOnce]_vars

\* The records a callback answered at time 0 can have left for session s,
\* each session with tokens of its own.
OwnRecords(s) ==
    {StoreUserToken([t \in Sessions |-> NoRecord], s, p, 0)[s] :
        p \in {q \in UserPayloads :
                  /\ q.access_token = (IF s = "s1" THEN "A1" ELSE "A2")
                  /\ q.refresh_token \in {None, IF s = "s1" THEN "R1" ELSE "R2"}}}

InitSession ==
    /\ now = 0
    /\ client_token \in {None, PriorToken}
    /\ client_token_expires_at =
          (IF client_token = None THEN NoTime ELSE ClientExpiry(0, DefaultExpiresIn))
    /\ user_tokens \in {f \in [Sessions -> UNION {OwnRecords(s) : s \in Sessions}
                                              \cup {NoRecord}] :
                           \A s \in Sessions : f[s] \in OwnRecords(s) \cup {NoRecord}}
    /\ calls = [w \in Workers |-> IdleCall]

\* One call for one session: store, clear, profile or cart.
SessionStep(w) ==
    \/ calls[w].pc = "idle" /\ StoreUserTokenCall(w)
    \/ calls[w].pc = "idle" /\ ClearUserSessionCall(w)
    \/ calls[w].pc = "idle" /\ CallUserOp(w)
    \/ RefreshAnswer(w)
    \/ RefreshReread(w)
    \/ ResourceAnswer(w)

NextSession == SessionStep("w1")
SpecSession == InitSession /\ [][NextSession]_vars

\* Profile and cart calls of session s1, one after the other.
RetryStep(w) ==
    \/ CallUserOp(w) /\ calls'[w].sid = "s1"
    \/ RefreshAnswer(w)
    \/ RefreshReread(w)
    \/ ResourceAnswer(w)

NextRetry == RetryStep("w1")
SpecRetry == InitSession /\ [][NextRetry]_vars

\* Two request threads, each with one profile call or one store for
\* session s1, every step of one interleaved with every step of the other.
StoreRaceStep(w) ==
    \/ /\ calls[w].pc = "idle"
       /\ CallUserOp(w)
       /\ calls'[w].op = "get_user_profile"
       /\ calls'[w].sid = "s1"
    \/ /\ calls[w].pc = "idle"
       /\ StoreUserTokenCall(w)
       /\ calls'[w].sid = "s1"
    \/ RefreshAnswer(w)
    \/ RefreshReread(w)
    \/ ResourceAnswer(w)

NextStoreRace == \E w \in Workers : StoreRaceStep(w)
\* Only s1 is logged in when the two threads start.
InitStoreRace ==
    /\ InitSession
    /\ client_token = None
    /\ user_tokens["s2"] = NoRecord

SpecStoreRace == InitStoreRace /\ [][NextStoreRace]_vars

\* The authorization callback with every combination of its parameters,
\* the code exchange called directly, and logout, one call at a time.
AuthStep(w) ==
    \/ CallAuthCallback(w)
    \/ CallExchangeCode(w)
    \/ ExchangeAnswer(w)
    \/ Logout(w)

NextAuth == AuthStep("w1")
SpecAuth == Init /\ [][NextAuth]_vars

StoreStep(w) ==
    \/ StoreUserTokenCall(w)
    \/ GetUserTokenCall(w)
    \/ ClearUserSessionCall(w)

NextStore == StoreTick \/ StoreStep("w1")
SpecStore == Init /\ [][NextStore]_vars

\* ---------------------------------------------------------------- claims
\* The step in which worker w enters a new call of operation op.
Enters(w, op) ==
    /\ Free(w)
    /\ calls'[w] /= calls[w]
    /\ calls'[w].op = op
    /\ calls'[w].answers = <<>>

ClientTokenInWindow ==
    /\ client_token /= None
    /\ client_token_expires_at /= NoTime
    /\ now < client_token_expires_at - SkewSeconds

\* C1: a get_client_token call made while a token is stored and the clock
\* is more than 5 minutes before its expiry returns the stored token,
\* sends no grant request and leaves token and expiry as they were.
C1_MemoizedUntilNearExpiry ==
    [][\A w \in Workers :
         (Enters(w, "get_client_token") /\ ClientTokenInWindow) =>
            /\ calls'[w].pc = "done"
            /\ calls'[w].result = Ok(client_token)
            /\ calls'[w].reqs = <<>>
            /\ client_token' = client_token
            /\ client_token_expires_at' = client_token_expires_at]_vars

C1_Witness ==
    \E w \in Workers :
       /\ calls[w].op = "get_client_token"
       /\ calls[w].pc = "done"
       /\ calls[w].reqs = <<>>
       /\ calls[w].result = Ok(client_token)
       /\ now > 0

\* C2: a get_client_token call made with no token stored, or at or after
\* expiry minus 5 minutes, sends exactly one client-credentials grant
\* request before it ends; a token granted at 0 for 1800 s is reused at
\* 100 s and requested again at 1600 s.
C2_ExactlyOneGrantWhenStale ==
    [][/\ \A w \in Workers :
            (Enters(w, "get_client_token") /\ ~ClientTokenInWindow) =>
               /\ calls'[w].pc = "grant_wait"
               /\ calls'[w].reqs = <<ClientGrantReq>>
       /\ \A w \in Workers :
            (calls'[w].op = "get_client_token" /\ calls'[w].judged = "stale") =>
               /\ CountReqs(calls'[w].reqs, "client_credentials") = 1
               /\ Len(calls'[w].reqs) = 1
       /\ \A w \in Workers :
            (Enters(w, "get_client_token") /\ client_token_expires_at = 1800) =>
               /\ now = 100 => calls'[w].reqs = <<>>
               /\ now = 1600 => calls'[w].reqs = <<ClientGrantReq>>]_vars

C2_Witness ==
    \E w \in Workers :
       /\ calls[w].op = "get_client_token"
       /\ calls[w].pc = "done"
       /\ calls[w].reqs = <<ClientGrantReq>>
       /\ calls[w].pre_expires_at = 1800
       /\ calls[w].stored_at >= 1600

\* C3: after a get_client_token call whose grant succeeded, the stored
\* token is the access_token of the response, the stored expiry is the
\* clock the call read plus the response's expires_in, and the call
\* returned that access token.
C3_GrantStored ==
    \A w \in Workers :
       (/\ calls[w].op = "get_client_token"
        /\ calls[w].pc = "done"
        /\ calls[w].answers = <<HttpOk>>) =>
          /\ client_token = calls[w].value_seen
          /\ client_token_expires_at = calls[w].stored_at + calls[w].payload_exp
          /\ calls[w].result = Ok(calls[w].value_seen)

C3_Witness ==
    \E w \in Workers :
       /\ calls[w].op = "get_client_token"
       /\ calls[w].pc = "done"
       /\ calls[w].answers = <<HttpOk>>
       /\ calls[w].stored_at > 0
       /\ calls[w].pre_expires_at \notin {NoTime, client_token_expires_at}

\* C4: when the grant request is answered by a non-2xx status or fails on
\* the network, get_client_token ends in an authentication error that
\* carries the upstream status if there is one, and returns no token.
C4_GrantFailureIsAuthError ==
    \A w \in Workers :
       (/\ calls[w].op = "get_client_token"
        /\ Len(calls[w].answers) = 1
        /\ calls[w].answers[1] /= HttpOk) =>
          /\ calls[w].pc = "done"
          /\ calls[w].result.kind = "error"
          /\ calls[w].result.err = "Authentication failed"
          /\ calls[w].result.status = calls[w].answers[1]
          /\ calls[w].result.value = None

C4_Witness ==
    \E w \in Workers :
       /\ calls[w].op = "get_client_token"
       /\ calls[w].pc = "done"
       /\ calls[w].answers = <<401>>
       /\ calls[w].result = Err("Authentication failed", 401)

NoCriteria(args) ==
    args.term = None /\ args.brand = None /\ args.product_id = None

\* C5: search_products called with none of term, brand and product_id
\* fails with an invalid-argument error before any HTTP request has been
\* made, whatever the state of the client token.
C5_NoCriteriaFailsBeforeAnyRequest ==
    \A w \in Workers :
       (calls[w].op = "search_products" /\ NoCriteria(calls[w].args)) =>
          /\ calls[w].reqs = <<>>
          /\ calls[w].pc = "done" => calls[w].result = Err("ValueError", NetFail)

EmptyItems(args) == args.items \in {None, "empty"}

\* C6: add_to_cart called on the service with an empty or absent item list
\* fails before any HTTP request (refresh grant or cart PUT) is made,
\* whatever the session's token record.
C6_EmptyItemsFailBeforeAnyRequest ==
    \A w \in Workers :
       (calls[w].op = "add_to_cart" /\ EmptyItems(calls[w].args)) =>
          /\ calls[w].reqs = <<>>
          /\ calls[w].pc = "done"
          /\ calls[w].result.kind = "error"

\* C7: get_user_profile and add_to_cart called for a session without a
\* stored record fail with "No user token found for session", send no
\* request and leave the token store as it was.
C7_NoRecordNotAuthenticated ==
    [][\A w \in Workers : \A op \in UserOps :
         (Enters(w, op) /\ user_tokens[calls'[w].sid] = NoRecord) =>
            /\ calls'[w].pc = "done"
            /\ calls'[w].result = Err("No user token found for session", NetFail)
            /\ calls'[w].reqs = <<>>
            /\ user_tokens' = user_tokens]_vars

C7_Witness ==
    \E w \in Workers :
       /\ calls[w].op \in UserOps
       /\ calls[w].pc = "done"
       /\ calls[w].result.err = "No user token found for session"
       /\ user_tokens[calls[w].sid] = NoRecord
       /\ \E s \in Sessions : user_tokens[s] /= NoRecord

RecordExpired(record) ==
    record /= NoRecord /\ now >= record.expires_at - SkewSeconds

RecordBuiltFrom(c, t) ==
    [access_token |-> c.value_seen,
     refresh_token |-> c.rtoken_seen,
     expires_at |-> t + (IF c.payload_exp = NoTime THEN DefaultExpiresIn
                         ELSE c.payload_exp),
     token_type |-> "bearer"]

\* C8: get_user_profile and add_to_cart that find the session's record
\* expired with a refresh token in it send a refresh_token grant with that
\* refresh token; when it succeeds the stored record is replaced by the
\* one built from the response, and the resource request that follows
\* carries the access token of the response.
C8_RefreshThenUseNewToken ==
    [][\A w \in Workers :
         /\ \A op \in UserOps :
              LET record == user_tokens[calls'[w].sid] IN
              (/\ Enters(w, op)
               /\ RecordExpired(record)
               /\ record.refresh_token /= None) =>
                 /\ calls'[w].pc = "refresh_wait"
                 /\ calls'[w].reqs = <<RefreshGrantReq(record.refresh_token)>>
         /\ (calls[w].pc = "refresh_wait" /\ calls'[w].answers = <<HttpOk>>) =>
              user_tokens'[calls'[w].sid] = RecordBuiltFrom(calls'[w], now)
         /\ (/\ calls'[w].op \in UserOps
             /\ calls'[w].judged = "expired"
             /\ calls'[w].pc \in {"resource_wait", "done"}
             /\ calls'[w].answers /= <<>>
             /\ calls'[w].answers[1] = HttpOk) =>
               /\ Len(calls'[w].reqs) = 2
               /\ calls'[w].reqs[2] =
                     Req(ResourceMethod(calls'[w].op), ResourcePath(calls'[w].op),
                         None, calls'[w].value_seen, calls'[w].args.items)]_vars

C8_Witness ==
    \E w \in Workers :
       /\ calls[w].op \in UserOps
       /\ calls[w].judged = "expired"
       /\ calls[w].pc = "done"
       /\ Len(calls[w].reqs) = 2
       /\ calls[w].reqs[1].grant = "refresh_token"
       /\ calls[w].reqs[2].bearer = user_tokens[calls[w].sid].access_token
       /\ calls[w].result.kind = "ok"
       /\ calls[w].stored_at > 0

\* C9: get_user_profile and add_to_cart that find the session's record
\* expired with no refresh token in it fail with "Token expired and no
\* refresh token available", send no request and leave the record alone.
C9_ExpiredWithoutRefreshToken ==
    [][\A w \in Workers : \A op \in UserOps :
         LET record == user_tokens[calls'[w].sid] IN
         (/\ Enters(w, op)
          /\ RecordExpired(record)
          /\ record.refresh_token = None) =>
            /\ calls'[w].pc = "done"
            /\ calls'[w].result =
                  Err("Token expired and no refresh token available", NetFail)
            /\ calls'[w].reqs = <<>>
            /\ user_tokens' = user_tokens]_vars

C9_Witness ==
    \E w \in Workers :
       /\ calls[w].op \in UserOps
       /\ calls[w].pc = "done"
       /\ calls[w].result.err = "Token expired and no refresh token available"
       /\ user_tokens[calls[w].sid] /= NoRecord
       /\ user_tokens[calls[w].sid].refresh_token = None
       /\ calls[w].reqs = <<>>

\* C10: when the refresh request sent by get_user_profile or add_to_cart
\* fails (error status or network failure), the call fails with "Token
\* refresh failed" and the profile GET / cart PUT is never sent.
C10_RefreshFailureStopsCall ==
    \A w \in Workers :
       (/\ calls[w].op \in UserOps
        /\ calls[w].judged = "expired"
        /\ calls[w].answers /= <<>>
        /\ calls[w].answers[1] /= HttpOk) =>
          /\ calls[w].pc = "done"
          /\ calls[w].result = Err("Token refresh failed", NetFail)
          /\ Len(calls[w].reqs) = 1
          /\ ResourceReqs(calls[w].reqs) = {}

C10_Witness ==
    \E w \in Workers :
       /\ calls[w].op \in UserOps
       /\ calls[w].pc = "done"
       /\ calls[w].answers = <<401>>
       /\ calls[w].reqs = <<RefreshGrantReq(user_tokens[calls[w].sid].refresh_token)>>
       /\ calls[w].result.err = "Token refresh failed"

SentResource(c) == ResourceReqs(c.reqs) /= {}

\* C11: a profile GET or cart PUT never bears the access token of a record
\* the same call judged expired: the bearer belongs to a record found more
\* than 5 minutes before its expiry (and then no refresh request is made),
\* or it is the token a successful refresh of that call wrote.
C11_NoExpiredBearer ==
    [][\A w \in Workers :
         /\ \A op \in UserOps :
              LET record == user_tokens[calls'[w].sid] IN
              (Enters(w, op) /\ SentResource(calls'[w])) =>
                 /\ record /= NoRecord
                 /\ now < record.expires_at - SkewSeconds
                 /\ Len(calls'[w].reqs) = 1
                 /\ calls'[w].reqs[1].bearer = record.access_token
         /\ (/\ calls'[w].op \in UserOps
             /\ SentResource(calls'[w])
             /\ Len(calls'[w].reqs) > 1) =>
               /\ Len(calls'[w].reqs) = 2
               /\ IsGrant(calls'[w].reqs[1], "refresh_token")
               /\ calls'[w].answers[1] = HttpOk
               /\ calls'[w].reqs[2].bearer = calls'[w].value_seen
               /\ user_tokens'[calls'[w].sid].access_token = calls'[w].value_seen]_vars

C11_Witness ==
    \E w \in Workers :
       /\ calls[w].op \in UserOps
       /\ calls[w].pc = "done"
       /\ calls[w].judged = "fresh"
       /\ Len(calls[w].reqs) = 1
       /\ calls[w].reqs[1].bearer = user_tokens[calls[w].sid].access_token
       /\ calls[w].result.kind = "ok"
       /\ now > 0

\* get_user_token(sid) entered by w right after w's store_user_token(sid).
GetsAfterStore(w) ==
    /\ calls[w].op = "store_user_token"
    /\ calls[w].pc = "done"
    /\ Enters(w, "get_user_token")
    /\ calls'[w].sid = calls[w].sid

\* C12 as stated: the record returned after a store has the payload's
\* access token, refresh token and token type, and expires at the store
\* time plus expires_in (1800 when absent).
C12_StoreThenGetAsStated ==
    [][\A w \in Workers :
         GetsAfterStore(w) =>
            calls'[w].utd =
               [access_token |-> calls[w].value_seen,
                refresh_token |-> calls[w].rtoken_seen,
                expires_at |-> calls[w].stored_at +
                   (IF calls[w].payload_exp = NoTime THEN 1800
                    ELSE calls[w].payload_exp),
                token_type |-> calls[w].ttype_seen]]_vars

\* C12 (amended): as stated, except that the token type of the record is
\* "bearer" when the payload carries none; whatever was stored for the
\* session before is overwritten.
C12_StoreThenGet ==
    [][\A w \in Workers :
         GetsAfterStore(w) =>
            /\ calls'[w].utd =
                  [access_token |-> calls[w].value_seen,
                   refresh_token |-> calls[w].rtoken_seen,
                   expires_at |-> calls[w].stored_at +
                      (IF calls[w].payload_exp = NoTime THEN 1800
                       ELSE calls[w].payload_exp),
                   token_type |-> IF calls[w].ttype_seen = None THEN "bearer"
                                  ELSE calls[w].ttype_seen]
            /\ calls'[w].utd = user_tokens[calls[w].sid]]_vars

C12_Witness ==
    \E w \in Workers :
       /\ calls[w].op = "get_user_token"
       /\ calls[w].pc = "done"
       /\ calls[w].utd /= NoRecord
       /\ calls[w].utd.refresh_token = None
       /\ calls[w].utd.token_type = "Bearer"
       /\ calls[w].utd.expires_at = now + 500
       /\ now > 0

\* C13: get_user_token returns the stored record whenever there is one,
\* expired or not, returns None otherwise, and neither changes the token
\* store nor sends a request.
C13_GetUserTokenIsPlainLookup ==
    [][\A w \in Workers :
         Enters(w, "get_user_token") =>
            /\ calls'[w].utd = user_tokens[calls'[w].sid]
            /\ calls'[w].pc = "done"
            /\ calls'[w].result.kind = "ok"
            /\ calls'[w].reqs = <<>>
            /\ user_tokens' = user_tokens
            /\ client_token' = client_token
            /\ client_token_expires_at' = client_token_expires_at]_vars

C13_Witness ==
    \E w \in Workers :
       /\ calls[w].op = "get_user_token"
       /\ calls[w].pc = "done"
       /\ calls[w].utd /= NoRecord
       /\ calls[w].utd = user_tokens[calls[w].sid]
       /\ now >= calls[w].utd.expires_at
       /\ calls[w].reqs = <<>>

\* C14: after clear_user_session(sid), get_user_token(sid) returns None;
\* clear_user_session of a session without a record (a second call in a
\* row included) raises nothing and changes nothing.
C14_ClearThenAbsent ==
    [][\A w \in Workers :
         /\ Enters(w, "clear_user_session") =>
              /\ calls'[w].pc = "done"
              /\ calls'[w].result.kind = "ok"
              /\ user_tokens'[calls'[w].sid] = NoRecord
              /\ user_tokens[calls'[w].sid] = NoRecord => user_tokens' = user_tokens
         /\ (/\ calls[w].op = "clear_user_session"
             /\ calls[w].pc = "done"
             /\ Enters(w, "get_user_token")
             /\ calls'[w].sid = calls[w].sid) =>
               calls'[w].utd = NoRecord]_vars

C14_Witness ==
    \E w \in Workers :
       /\ calls[w].op = "clear_user_session"
       /\ calls[w].pc = "done"
       /\ calls[w].wrote = {}
       /\ user_tokens[calls[w].sid] = NoRecord
       /\ \E s \in Sessions : user_tokens[s] /= NoRecord

\* The access tokens of the grant responses the calls have received.
GrantedTokens ==
    {calls[w].value_seen :
        w \in {v \in Workers : /\ calls[v].answers /= <<>>
                               /\ IsGrant(calls[v].reqs[1], "client_credentials")
                               /\ calls[v].answers[1] = HttpOk}}

\* C15: when concurrent requests call get_client_token while the token is
\* missing or expired, every bearer a wrapper sends is the access token of
\* a grant response, and once all calls have finished the stored client
\* token is the access token of one of the grant responses (unchanged when
\* every grant failed).
C15_RaceIsLastWriteWins ==
    /\ \A w \in Workers : \A i \in ResourceReqs(calls[w].reqs) :
          calls[w].reqs[i].bearer \in GrantedTokens
    /\ (\A w \in Workers : calls[w].pc = "done") =>
          IF GrantedTokens = {}
          THEN client_token \in {None, PriorToken}
          ELSE client_token \in GrantedTokens

C15_Witness ==
    /\ \A w \in Workers :
          /\ calls[w].pc = "done"
          /\ calls[w].op \in WrapperOps
          /\ calls[w].judged = "stale"
          /\ calls[w].answers[1] = HttpOk
          /\ calls[w].pre_expires_at /= NoTime
          /\ ResourceReqs(calls[w].reqs) /= {}
    /\ calls["w1"].value_seen /= calls["w2"].value_seen
    /\ calls["w1"].reqs[2].bearer = calls["w2"].value_seen
    /\ client_token = calls["w2"].value_seen

GrantsOutstanding == {w \in Workers : calls[w].pc = "grant_wait"}

\* C16 as stated: at most one client-credentials grant request per expiry
\* window, also when requests are handled concurrently: two grant requests
\* are never outstanding for the same missing or expired token.
C16_OneGrantPerWindow == Cardinality(GrantsOutstanding) <= 1

SendsGrant(w) ==
    CountReqs(calls'[w].reqs, "client_credentials") >
       CountReqs(calls[w].reqs, "client_credentials")

\* C16: the client token is refreshed lazily and at most once per call: a
\* grant request is sent only by a call entering while the token is
\* missing or within 5 minutes of its expiry, no call sends two, and a
\* call entering inside the window sends none; concurrent calls that all
\* find the token missing or expired each send their own.
C16_LazyOneGrantPerCall ==
    [][\A w \in Workers :
         /\ SendsGrant(w) => (/\ calls[w].pc = "idle"
                              /\ ~ClientTokenInWindow
                              /\ calls'[w].reqs = <<ClientGrantReq>>)
         /\ (calls[w].pc = "idle" /\ calls'[w].pc /= "idle" /\ ClientTokenInWindow) =>
               ~SendsGrant(w)
         /\ CountReqs(calls'[w].reqs, "client_credentials") <= 1]_vars

C16_Witness ==
    /\ calls["w1"].pc = "done"
    /\ calls["w1"].judged = "stale"
    /\ CountReqs(calls["w1"].reqs, "client_credentials") = 1
    /\ calls["w1"].answers[1] = HttpOk
    /\ calls["w2"].pc = "done"
    /\ calls["w2"].judged = "fresh"
    /\ CountReqs(calls["w2"].reqs, "client_credentials") = 0
    /\ calls["w2"].op = "search_locations"
    /\ calls["w2"].reqs[1].bearer = calls["w1"].value_seen

\* A logout and a profile or cart call for the same session, both finished.
LogoutRacedWith(l, u) ==
    /\ calls[l].op = "logout"
    /\ calls[l].pc = "done"
    /\ calls[u].op \in UserOps
    /\ calls[u].pc = "done"
    /\ calls[u].sid = calls[l].sid

\* C17: a refresh only overwrites an existing record and never creates
\* one: after a logout and a get_user_profile / add_to_cart call for the
\* same session have both finished, in any interleaving, the session has
\* no record.
C17_NoRecordAfterLogoutRace ==
    \A l \in Workers, u \in Workers :
       LogoutRacedWith(l, u) => user_tokens[calls[l].sid] = NoRecord

\* get_client_token has returned a token to call c.
TokenObtained(c) ==
    \/ c.judged = "fresh" /\ c.reqs = <<>>
    \/ /\ c.judged = "stale"
       /\ c.reqs = <<ClientGrantReq>>
       /\ c.answers = <<HttpOk>>
       /\ c.stored_at /= NoTime

\* C18: a wrapper sends its resource GET only after get_client_token has
\* succeeded in the same invocation, with the client token stored at that
\* moment as bearer; when get_client_token fails no resource GET is sent
\* and the call ends with the authentication error.
C18_GetOnlyAfterToken ==
    [][\A w \in Workers :
         /\ (/\ calls'[w].op \in WrapperOps
             /\ ResourceReqs(calls'[w].reqs) \ ResourceReqs(calls[w].reqs) /= {}) =>
               /\ TokenObtained(calls[w])
               /\ client_token /= None
               /\ calls'[w].reqs =
                     Append(calls[w].reqs, calls'[w].reqs[Len(calls'[w].reqs)])
               /\ calls'[w].reqs[Len(calls'[w].reqs)].method = "GET"
               /\ calls'[w].reqs[Len(calls'[w].reqs)].path = ResourcePath(calls'[w].op)
               /\ calls'[w].reqs[Len(calls'[w].reqs)].bearer = client_token
         /\ (/\ calls[w].op \in WrapperOps
             /\ calls[w].pc = "grant_wait"
             /\ calls'[w] /= calls[w]
             /\ calls'[w].answers /= <<HttpOk>>) =>
               /\ calls'[w].pc = "done"
               /\ calls'[w].result.kind = "error"
               /\ calls'[w].result.err = "Authentication failed"
               /\ ResourceReqs(calls'[w].reqs) = {}]_vars

C18_Witness ==
    \E w \in Workers :
       /\ calls[w].op = "get_product_details"
       /\ calls[w].pc = "done"
       /\ calls[w].judged = "stale"
       /\ Len(calls[w].reqs) = 2
       /\ calls[w].reqs[1] = ClientGrantReq
       /\ calls[w].answers[1] = HttpOk
       /\ calls[w].reqs[2].method = "GET"
       /\ calls[w].reqs[2].bearer = calls[w].value_seen
       /\ calls[w].result.kind = "ok"

TokenReqs(reqs) == {i \in 1..Len(reqs) : ~IsResource(reqs[i])}

\* C19: no wrapper retries: one invocation sends at most one request to
\* its resource endpoint and at most one to the token endpoint, and an
\* answer other than 200 (an error status or a network failure) to either
\* ends the invocation, with no further request, in an error result.
C19_NoRetries ==
    \A w \in Workers :
       calls[w].op \in WrapperOps \cup UserOps =>
          /\ Cardinality(ResourceReqs(calls[w].reqs)) <= 1
          /\ Cardinality(TokenReqs(calls[w].reqs)) <= 1
          /\ \A i \in 1..Len(calls[w].answers) :
                calls[w].answers[i] /= HttpOk =>
                   /\ calls[w].pc = "done"
                   /\ calls[w].result.kind = "error"
                   /\ calls[w].result.err /= None
                   /\ Len(calls[w].reqs) = i
                   /\ Len(calls[w].answers) = i

C19_Witness ==
    \E w \in Workers :
       /\ calls[w].op = "add_to_cart"
       /\ calls[w].pc = "done"
       /\ Len(calls[w].reqs) = 2
       /\ IsGrant(calls[w].reqs[1], "refresh_token")
       /\ calls[w].reqs[2].method = "PUT"
       /\ calls[w].answers = <<HttpOk, 500>>
       /\ calls[w].result = Err("Add to cart failed", 500)

Supplied(x) == x /= None

\* C20: the request of search_products carries exactly one of the filters
\* term, brand, productId: term when a term is supplied, whatever else is
\* supplied, otherwise brand when a brand is supplied, otherwise productId.
C20_OneFilterByPriority ==
    \A w \in Workers :
       calls[w].op = "search_products" =>
          \A i \in ResourceReqs(calls[w].reqs) :
             calls[w].reqs[i].param =
                IF Supplied(calls[w].args.term) THEN "filter.term"
                ELSE IF Supplied(calls[w].args.brand) THEN "filter.brand"
                ELSE "filter.productId"

C20_Witness ==
    \E w \in Workers :
       /\ calls[w].op = "search_products"
       /\ Supplied(calls[w].args.term)
       /\ Supplied(calls[w].args.brand)
       /\ Supplied(calls[w].args.product_id)
       /\ ResourceReqs(calls[w].reqs) /= {}
       /\ calls[w].reqs[Len(calls[w].reqs)].param = "filter.term"
       /\ calls[w].pc = "done"

\* The step in which the token endpoint answers the code exchange of w.
ExchangeAnswered(w) ==
    /\ calls[w].pc = "exchange_wait"
    /\ calls'[w] /= calls[w]

\* C21: exchange_code_for_token only returns the token payload or fails
\* with a token-exchange error and never writes the token store; when the
\* exchange fails inside the authorization callback, no record is created
\* or changed.
C21_ExchangeWritesNothing ==
    [][\A w \in Workers :
         /\ (calls'[w].op = "exchange_code_for_token" /\ calls'[w] /= calls[w]) =>
               /\ user_tokens' = user_tokens
               /\ client_token' = client_token
               /\ client_token_expires_at' = client_token_expires_at
               /\ calls'[w].wrote = {}
               /\ calls'[w].reqs = <<CodeGrantReq>>
               /\ calls'[w].pc = "done" =>
                     IF calls'[w].answers = <<HttpOk>>
                     THEN calls'[w].result = Ok("payload")
                     ELSE /\ calls'[w].result.kind = "error"
                          /\ calls'[w].result.err = "Token exchange failed"
         /\ (/\ ExchangeAnswered(w)
             /\ calls[w].op = "auth_callback"
             /\ calls'[w].answers /= <<HttpOk>>) =>
               /\ user_tokens' = user_tokens
               /\ calls'[w].pc = "done"
               /\ calls'[w].result.kind = "error"
               /\ calls'[w].result.err = "Token exchange failed"]_vars

C21_Witness ==
    /\ calls["w1"].op = "auth_callback"
    /\ calls["w1"].pc = "done"
    /\ calls["w1"].answers = <<401>>
    /\ calls["w1"].result = Err("Token exchange failed", 401)
    /\ user_tokens[calls["w1"].sid] /= NoRecord
    /\ user_tokens[calls["w1"].sid].refresh_token = "R1"

\* The condition the callback is said to accept.
CallbackAcceptable(c) ==
    /\ c.args.code /= None
    /\ c.args.error = None
    /\ c.args.state \notin {<<>>, <<"">>}
    /\ \/ c.args.state[Len(c.args.state)] = c.sid
       \/ c.args.state[1] = "kroger_auth_"

\* C22: the authorization callback sends the code to the token endpoint,
\* and stores the answered token under the caller's session id, exactly
\* when a code is present, no error parameter is present, and the state is
\* non-empty and ends with the session id or starts with 'kroger_auth_';
\* otherwise it answers 400, sends nothing and leaves the store unchanged.
C22_CallbackAcceptsExactly ==
    [][\A w \in Workers :
         /\ Enters(w, "auth_callback") =>
              /\ user_tokens' = user_tokens
              /\ IF CallbackAcceptable(calls'[w])
                 THEN /\ calls'[w].pc = "exchange_wait"
                      /\ calls'[w].reqs = <<CodeGrantReq>>
                 ELSE /\ calls'[w].pc = "done"
                      /\ RouteStatus(calls'[w]) = 400
                      /\ calls'[w].reqs = <<>>
         /\ (/\ ExchangeAnswered(w)
             /\ calls[w].op = "auth_callback"
             /\ calls'[w].answers = <<HttpOk>>) =>
               /\ CallbackAcceptable(calls[w])
               /\ Changed(user_tokens, user_tokens') \subseteq {calls[w].sid}
               /\ user_tokens'[calls[w].sid].access_token = calls'[w].value_seen
               /\ user_tokens'[calls[w].sid].refresh_token = calls'[w].rtoken_seen
               /\ calls'[w].result = Ok("redirect")]_vars

C22_Witness ==
    /\ calls["w1"].op = "auth_callback"
    /\ calls["w1"].pc = "done"
    /\ calls["w1"].sid = "s1"
    /\ calls["w1"].args.state = <<"kroger_auth_", "s2">>
    /\ calls["w1"].result = Ok("redirect")
    /\ user_tokens["s1"].access_token = calls["w1"].value_seen
    /\ user_tokens["s2"] = NoRecord

\* C23: the HTTP boundary answers an invalid-argument failure (a product
\* search without term, brand and product_id) and a not-authenticated
\* failure (a profile or cart call of a session without a record) with
\* 400, and upstream failures with 500.
C23_ErrorKindsMapped ==
    \A w \in Workers :
       (calls[w].pc = "done" /\ calls[w].result.kind = "error") =>
          RouteStatus(calls[w]) =
             IF calls[w].result.err \in {"ValueError", "No user token found for session"}
             THEN 400 ELSE 500

\* Token and expiry as stored are those of the grant answer call c received.
PairFromAnswer(c) ==
    /\ c.answers /= <<>>
    /\ c.answers[1] = HttpOk
    /\ c.stored_at /= NoTime
    /\ client_token = c.value_seen
    /\ client_token_expires_at = c.stored_at + c.payload_exp

\* C24: the stored client access token and the stored expiry come from the
\* same grant response, also after interleaved concurrent get_client_token
\* calls: once the calls have finished, the token of one response is not
\* paired with the expiry computed from another.
C24_TokenAndExpiryFromOneAnswer ==
    (\A w \in Workers : calls[w].pc = "done") =>
       \/ \E w \in Workers : PairFromAnswer(calls[w])
       \/ \A w \in Workers : calls[w].stored_at = NoTime

\* C25: a failed grant request of get_client_token leaves the stored
\* client token and its expiry as they were.
C25_FailedGrantKeepsToken ==
    [][\A w \in Workers :
         (/\ calls[w].pc = "grant_wait"
          /\ calls'[w] /= calls[w]
          /\ calls'[w].answers /= <<HttpOk>>) =>
            /\ client_token' = client_token
            /\ client_token_expires_at' = client_token_expires_at
            /\ calls'[w].pc = "done"
            /\ calls'[w].result.kind = "error"]_vars

C25_Witness ==
    \E w \in Workers :
       /\ calls[w].pc = "done"
       /\ calls[w].judged = "stale"
       /\ calls[w].answers = <<500>>
       /\ calls[w].result.kind = "error"
       /\ client_token = PriorToken
       /\ client_token_expires_at = calls[w].pre_expires_at
       /\ client_token_expires_at /= NoTime

\* Call c has ended because its refresh request failed.
RefreshFailed(c) ==
    /\ c.op \in UserOps
    /\ c.pc = "done"
    /\ c.judged = "expired"
    /\ Len(c.answers) = 1
    /\ c.answers[1] /= HttpOk

\* C26: when the refresh inside get_user_profile or add_to_cart fails, the
\* call writes nothing, so the session's record is what the call found,
\* and the next call for the session sends a refresh request with the same
\* refresh token.
C26_FailedRefreshKeepsRecord ==
    [][\A w \in Workers :
         /\ (/\ calls[w].pc = "refresh_wait"
             /\ calls'[w] /= calls[w]
             /\ calls'[w].answers /= <<HttpOk>>) =>
               /\ user_tokens' = user_tokens
               /\ RefreshFailed(calls'[w])
               /\ calls'[w].wrote = {}
               /\ calls'[w].result.err = "Token refresh failed"
         /\ \A v \in Workers \ {w} : \A op \in UserOps :
               (/\ RefreshFailed(calls[v])
                /\ calls[w].pc = "idle"
                /\ Enters(w, op)
                /\ calls'[w].sid = calls[v].sid) =>
                  /\ user_tokens[calls[v].sid] = calls[v].utd
                  /\ calls'[w].pc = "refresh_wait"
                  /\ calls'[w].reqs =
                        <<RefreshGrantReq(calls[v].utd.refresh_token)>>]_vars

C26_Witness ==
    /\ RefreshFailed(calls["w1"])
    /\ calls["w1"].answers = <<401>>
    /\ calls["w2"].sid = calls["w1"].sid
    /\ calls["w2"].pc = "refresh_wait"
    /\ calls["w2"].reqs = calls["w1"].reqs
    /\ user_tokens[calls["w1"].sid] = calls["w1"].utd
    /\ calls["w1"].utd.refresh_token = "R1"

SessionOps == {"store_user_token", "clear_user_session"} \cup UserOps

\* The requests a step adds to the call of w.
NewReqs(w) ==
    {calls'[w].reqs[i] : i \in (1..Len(calls'[w].reqs)) \ (1..Len(calls[w].reqs))}

\* C27: store_user_token, clear_user_session, get_user_profile and
\* add_to_cart for session s change at most the record of s; every other
\* record and the client token stay as they were, and every request made
\* for s carries the refresh or access token of the record of s.
C27_SessionIsolation ==
    [][\A w \in Workers :
         (calls'[w] /= calls[w] /\ calls'[w].op \in SessionOps) =>
            /\ Changed(user_tokens, user_tokens') \subseteq {calls'[w].sid}
            /\ client_token' = client_token
            /\ client_token_expires_at' = client_token_expires_at
            /\ calls'[w].op \in UserOps =>
                 \A r \in NewReqs(w) :
                    IF IsResource(r)
                    THEN r.bearer = user_tokens[calls'[w].sid].access_token
                    ELSE /\ IsGrant(r, "refresh_token")
                         /\ r.param = user_tokens[calls'[w].sid].refresh_token]_vars

C27_Witness ==
    /\ calls["w1"].op = "get_user_profile"
    /\ calls["w1"].sid = "s1"
    /\ calls["w1"].pc = "done"
    /\ calls["w1"].answers = <<HttpOk, HttpOk>>
    /\ Len(calls["w1"].reqs) = 2
    /\ calls["w1"].reqs[1].param = "R1"
    /\ calls["w1"].reqs[2].bearer = calls["w1"].value_seen
    /\ calls["w1"].wrote = {"s1"}
    /\ user_tokens["s2"].access_token = "A2"
    /\ user_tokens["s2"].refresh_token = "R2"
    /\ user_tokens["s1"].access_token = calls["w1"].value_seen
    /\ client_token = PriorToken

\* C28: one invocation of get_user_profile or add_to_cart sends at most
\* one refresh request: after a successful refresh it sends the resource
\* request with the record just stored, whose expiry is not looked at
\* again, also when the new token's expires_in is 5 minutes or less.
C28_OneRefreshPerCall ==
    [][\A w \in Workers :
         calls'[w].op \in UserOps =>
            /\ CountReqs(calls'[w].reqs, "refresh_token") <= 1
            /\ (calls[w].pc = "refresh_reread" /\ calls'[w] /= calls[w]) =>
                  /\ calls'[w].pc = "resource_wait"
                  /\ Len(calls'[w].reqs) = 2
                  /\ IsResource(calls'[w].reqs[2])
                  /\ calls'[w].reqs[2].bearer = user_tokens[calls[w].sid].access_token
                  /\ calls'[w].reqs[2].bearer = calls[w].value_seen]_vars

C28_Witness ==
    \E w \in Workers :
       /\ calls[w].op \in UserOps
       /\ calls[w].pc = "done"
       /\ calls[w].answers = <<HttpOk, HttpOk>>
       /\ calls[w].payload_exp = SkewSeconds
       /\ calls[w].rtoken_seen /= None
       /\ now >= user_tokens[calls[w].sid].expires_at - SkewSeconds
       /\ calls[w].reqs[2].bearer = calls[w].value_seen
       /\ calls[w].result.kind = "ok"

\* Call c refreshed its session's record from a payload without refresh
\* token.
RefreshedWithoutRefreshToken(c) ==
    /\ c.op \in UserOps
    /\ c.pc = "done"
    /\ c.judged = "expired"
    /\ c.answers /= <<>>
    /\ c.answers[1] = HttpOk
    /\ c.rtoken_seen = None

\* C29: after a successful refresh the record's refresh token is the one
\* of the refresh response, absent when the response has none; the next
\* call that finds that record expired then fails with the token-expired
\* error and sends no refresh request.
C29_RefreshTokenReplaced ==
    [][\A w \in Workers :
         /\ (/\ calls[w].pc = "refresh_wait"
             /\ calls'[w] /= calls[w]
             /\ calls'[w].answers = <<HttpOk>>) =>
               user_tokens'[calls[w].sid].refresh_token = calls'[w].rtoken_seen
         /\ \A op \in UserOps :
               (/\ RefreshedWithoutRefreshToken(calls[w])
                /\ Enters(w, op)
                /\ calls'[w].sid = calls[w].sid
                /\ now >= user_tokens[calls[w].sid].expires_at - SkewSeconds) =>
                  /\ calls'[w].pc = "done"
                  /\ calls'[w].reqs = <<>>
                  /\ calls'[w].result.err =
                        "Token expired and no refresh token available"
                  /\ user_tokens' = user_tokens]_vars

C29_Witness ==
    \E w \in Workers :
       /\ calls[w].op \in UserOps
       /\ calls[w].sid = "s1"
       /\ calls[w].pc = "done"
       /\ calls[w].reqs = <<>>
       /\ calls[w].result.err = "Token expired and no refresh token available"
       /\ user_tokens["s1"].access_token = "A2"
       /\ user_tokens["s1"].refresh_token = None
       /\ now >= user_tokens["s1"].expires_at - SkewSeconds

\* The record store_user_token builds from the payload call c received.
WholeRecordOf(c) ==
    [access_token |-> c.value_seen,
     refresh_token |-> c.rtoken_seen,
     expires_at |-> c.stored_at + (IF c.payload_exp = NoTime THEN DefaultExpiresIn
                                   ELSE c.payload_exp),
     token_type |-> IF c.ttype_seen = None THEN "bearer" ELSE c.ttype_seen]

\* C30: every stored record is taken whole from one token payload, also
\* after concurrent refreshes and stores for the same session: it is the
\* record the session started with or the record built from the payload of
\* one of the calls, never a mix of two payloads.
C30_RecordsAreWhole ==
    \A s \in Sessions :
       \/ user_tokens[s] = NoRecord
       \/ user_tokens[s] \in OwnRecords(s)
       \/ \E w \in Workers :
            /\ calls[w].sid = s
            /\ calls[w].stored_at /= NoTime
            /\ user_tokens[s] = WholeRecordOf(calls[w])

C30_Witness ==
    /\ calls["w1"].op = "get_user_profile"
    /\ calls["w2"].op = "get_user_profile"
    /\ calls["w1"].pc = "done"
    /\ calls["w2"].pc = "done"
    /\ calls["w1"].answers = <<HttpOk, HttpOk>>
    /\ calls["w2"].answers = <<HttpOk, HttpOk>>
    /\ calls["w1"].value_seen = "A1"
    /\ calls["w1"].rtoken_seen = "R1"
    /\ calls["w2"].value_seen = "A2"
    /\ calls["w2"].rtoken_seen = None
    /\ calls["w1"].payload_exp /= calls["w2"].payload_exp
    /\ user_tokens["s1"] = WholeRecordOf(calls["w2"])
    /\ calls["w1"].reqs[2].bearer = "A2"

====
